---- MODULE Spec2Model ----
(***************************************************************************)
(* A model of libs/utils.py: the MNIST downloader (load_dataset_mnist),    *)
(* the supervised minibatch loop (Trainer.train) and the adversarial loop  *)
(* (TrainerGAN.train, with save_grid_images).  Each of the three is a      *)
(* state machine of its own (SpecMnist, SpecTrainer, SpecGAN); the         *)
(* variables of the other two stay at their initial values.                *)
(***************************************************************************)
EXTENDS Integers, Sequences, FiniteSets, TLC

VARIABLES
    \* ---- load_dataset_mnist: the filesystem and the position in the call
    dataDirExists,  \* "data_mnist" is in os.listdir(check_path)
    dir,            \* content of every file name in <check_path>/data_mnist
    cwdIsData,      \* the current working directory is <check_path>/data_mnist
    cwdFiles,       \* file names in the current working directory (if it is another directory)
    mpc,            \* position in load_dataset_mnist ("idle": no call is running)
    fi,             \* index of file_url in download_files (1-based)
    requests,       \* number of requests.get calls issued so far, over all calls
    finished,       \* number of calls that ran to completion (printed "Finish")
    outcome,        \* how the last call ended: "none", "running", "returned", "raised", "killed"
    skipped,        \* the files whose iteration the running (or last) call skipped
    calls,          \* number of calls started
    \* ---- Trainer.train
    X0, y0,         \* the arrays passed to train(X_train, y_train)
    X_train,        \* the local X_train (rebound to its shuffle every epoch)
    y_train,        \* the local y_train
    src,            \* for each row of X_train, its row number in X0
    batch_size,     \* self.batch_size
    epochs,         \* self.epochs
    lossVals,       \* the values self.model.loss_func can return, in units of 1e-5
    e,              \* the epoch, 0-based
    it,             \* the batch offset
    epoch_loss,     \* in units of 1e-5
    num_batches,
    tpc,            \* position in Trainer.train
    backwardCalls,  \* number of self.model.backward calls so far
    seen,           \* the rows (as row numbers of X0) handed to the model this epoch, in order
    batchSizes,     \* the sizes of this epoch's batches, in order
    lossLog,        \* this epoch's batch losses, in order
    batch,          \* the last <<X_batch, y_batch>>
    reported,       \* the loss printed at the end of each epoch so far, in units of 1e-5
    \* ---- TrainerGAN.train
    gm,             \* m = X_train.shape[0]
    gbatch,         \* self.batch_size
    iterations,     \* self.iterations
    k,              \* self.k
    report_freq,    \* self.report_freq
    i,              \* the iteration, 0-based
    j,              \* number of inner discriminator steps done in this iteration
    z,              \* the latent noise last drawn (draws are numbered: each is fresh)
    G,              \* the generated batch last produced
    x, y,           \* the batch and the labels last passed to the discriminator
    D_loss,         \* in units of 1e-5; "unbound" before the first inner step
    report_loss,    \* in units of 1e-5
    G_loss,         \* in units of 1e-5
    gpc,            \* position in TrainerGAN.train
    draws,          \* number of np.random.normal draws so far
    dUpdates,       \* number of self.discriminator.backward calls so far
    gUpdates,       \* number of self.generator.backward calls so far
    events,         \* the generator calls and the updates of this iteration, in order
    inner,          \* the D losses of this iteration's inner steps, in order
    printed,        \* the report line last printed (iteration 0: none yet)
    reportsAt,      \* the iteration numbers whose report ran (print and save_grid_images)
    saves,          \* number of plt.savefig calls so far
    pngs            \* the files written to the current working directory

mvars == <<dataDirExists, dir, cwdIsData, cwdFiles, mpc, fi, requests,
           finished, outcome, skipped, calls>>

tvars == <<X0, y0, X_train, y_train, src, batch_size, epochs, lossVals, e, it,
           epoch_loss, num_batches, tpc, backwardCalls, seen, batchSizes, lossLog,
           batch, reported>>

gvars == <<gm, gbatch, iterations, k, report_freq, i, j, z, G, x, y, D_loss,
           report_loss, G_loss, gpc, draws, dUpdates, gUpdates, events, inner,
           printed, reportsAt, saves, pngs>>

vars == <<mvars, tvars, gvars>>

-----------------------------------------------------------------------------
(* Bounds *)

MaxCalls == 3

MaxM == 3

MaxBatch == 3

MaxEpochs == 2

MaxGM == 2

MaxGBatch == 2

MaxIterations == 6

MaxK == 2

MaxFreq == 2

-----------------------------------------------------------------------------
(* load_dataset_mnist *)

\* A URL as its "/"-separated components; the last one, the file name, as its
\* "."-separated parts.
Url(stem) == <<"http:", "", "yann.lecun.com", "exdb", "mnist", <<stem, "gz">>>>

download_files ==
    << Url("train-images-idx3-ubyte"),
       Url("t10k-images-idx3-ubyte"),
       Url("train-labels-idx1-ubyte"),
       Url("t10k-labels-idx1-ubyte") >>

\* file_url.split("/")[-1]
FileName(file_url) == file_url[Len(file_url)]

\* "".join(file_name.split(".")[:-1])
UncompressedName(file_name) == SubSeq(file_name, 1, Len(file_name) - 1)

FileIdx == 1..Len(download_files)

GzNames == {FileName(download_files[n]) : n \in FileIdx}

RawNames == {UncompressedName(f) : f \in GzNames}

\* A file is absent, or holds nothing, a part of its content, or all of it.
Content == {"absent", "empty", "partial", "complete"}

\* os.listdir(check_path + "/data_mnist")
ListDir(d) == {n \in DOMAIN d : d[n] # "absent"}

\* A presence check that also looks at the content (the code's does not).
InListingComplete(name, d) == name \in DOMAIN d /\ d[name] = "complete"

\* `name in os.listdir(...)`: presence of the name alone, whatever the content
InListing(name, d) == name \in ListDir(d)

\* An rm that deletes the decompressed file instead of the compressed one.
RmTargetUncompressed(file_name) == UncompressedName(file_name)

\* What `rm -rf <file_name>` run by os.system deletes: the path is relative, so it
\* is the entry of that name in the current working directory.
RmTarget(file_name) == file_name

MInit ==
    /\ dataDirExists \in BOOLEAN
    /\ dir = [n \in GzNames \cup RawNames |-> "absent"]
    /\ cwdIsData \in BOOLEAN
    /\ cwdFiles \in IF cwdIsData THEN {{}}
                    ELSE SUBSET {FileName(download_files[1]), <<"notes", "txt">>}
    /\ mpc = "idle"
    /\ fi = 1
    /\ requests = 0
    /\ finished = 0
    /\ outcome = "none"
    /\ skipped = {}
    /\ calls = 0
    \* Trainer.train is not running
    /\ X0 = <<>> /\ y0 = <<>> /\ X_train = <<>> /\ y_train = <<>> /\ src = <<>>
    /\ batch_size = 1 /\ epochs = 0 /\ lossVals = {} /\ e = 0 /\ it = 0
    /\ epoch_loss = 0 /\ num_batches = 0 /\ tpc = "off" /\ backwardCalls = 0
    /\ seen = <<>> /\ batchSizes = <<>> /\ lossLog = <<>> /\ batch = <<>>
    /\ reported = <<>>
    \* TrainerGAN.train is not running
    /\ gm = 0 /\ gbatch = 0 /\ iterations = 0 /\ k = 0 /\ report_freq = 0
    /\ i = 0 /\ j = 0 /\ z = 0 /\ G = <<>> /\ x = <<>> /\ y = <<>>
    /\ D_loss = "unbound" /\ report_loss = 0 /\ G_loss = "unbound" /\ gpc = "off"
    /\ draws = 0 /\ dUpdates = 0 /\ gUpdates = 0 /\ events = <<>> /\ inner = <<>>
    /\ printed = [iteration |-> 0, D |-> 0, G |-> 0] /\ reportsAt = {} /\ saves = 0 /\ pngs = {}

\* load_dataset_mnist(check_path) is called
MCall ==
    /\ UNCHANGED <<tvars, gvars>>
    /\ mpc = "idle"
    /\ calls < MaxCalls
    /\ calls' = calls + 1
    /\ mpc' = "mkdir"
    /\ outcome' = "running"
    /\ skipped' = {}
    /\ fi' = 1
    /\ UNCHANGED <<dataDirExists, dir, cwdIsData, cwdFiles, requests, finished>>

\* if "data_mnist" not in os.listdir(check_path): os.mkdir(...)
MMkdir ==
    /\ UNCHANGED <<tvars, gvars>>
    /\ mpc = "mkdir"
    /\ dataDirExists' = TRUE
    /\ mpc' = "loop"
    /\ UNCHANGED <<dir, cwdIsData, cwdFiles, fi, requests, finished, outcome,
                   skipped, calls>>

\* the loop is exhausted: print("-------> Finish") and return
MFinish ==
    /\ UNCHANGED <<tvars, gvars>>
    /\ mpc = "loop"
    /\ fi > Len(download_files)
    /\ mpc' = "idle"
    /\ outcome' = "returned"
    /\ finished' = finished + 1
    /\ UNCHANGED <<dataDirExists, dir, cwdIsData, cwdFiles, fi, requests, skipped, calls>>

\* if uncompressed_file_name in os.listdir(...): continue
MSkip ==
    /\ UNCHANGED <<tvars, gvars>>
    /\ mpc = "loop"
    /\ fi \in FileIdx
    /\ InListing(UncompressedName(FileName(download_files[fi])), dir)
    /\ skipped' = skipped \cup {fi}
    /\ fi' = fi + 1
    /\ UNCHANGED <<dataDirExists, dir, cwdIsData, cwdFiles, mpc, requests, finished,
                   outcome, calls>>

\* the target is not listed; if file_name not in os.listdir(...): download, else
\* go on to decompress the compressed file that is there
MEnter ==
    /\ UNCHANGED <<tvars, gvars>>
    /\ mpc = "loop"
    /\ fi \in FileIdx
    /\ ~InListing(UncompressedName(FileName(download_files[fi])), dir)
    /\ mpc' = IF InListing(FileName(download_files[fi]), dir) THEN "gunzip" ELSE "open_gz"
    /\ UNCHANGED <<dataDirExists, dir, cwdIsData, cwdFiles, fi, requests, finished,
                   outcome, skipped, calls>>

\* with open(abs_path + "/" + file_name, "wb") as f: the file is created, empty
MOpenGz ==
    /\ UNCHANGED <<tvars, gvars>>
    /\ mpc = "open_gz"
    /\ dir' = [dir EXCEPT ![FileName(download_files[fi])] = "empty"]
    /\ mpc' = "get"
    /\ UNCHANGED <<dataDirExists, cwdIsData, cwdFiles, fi, requests, finished,
                   outcome, skipped, calls>>

\* r = requests.get(file_url): answers, or raises (no retry, the failure propagates)
MGet ==
    /\ UNCHANGED <<tvars, gvars>>
    /\ mpc = "get"
    /\ requests' = requests + 1
    /\ \/ /\ mpc' = "write"
          /\ UNCHANGED outcome
       \/ /\ mpc' = "idle"
          /\ outcome' = "raised"
    /\ UNCHANGED <<dataDirExists, dir, cwdIsData, cwdFiles, fi, finished, skipped, calls>>

\* f.write(r.content): the first bytes reach the file
MWrite ==
    /\ UNCHANGED <<tvars, gvars>>
    /\ mpc = "write"
    /\ dir' = [dir EXCEPT ![FileName(download_files[fi])] = "partial"]
    /\ mpc' = "writing"
    /\ UNCHANGED <<dataDirExists, cwdIsData, cwdFiles, fi, requests, finished,
                   outcome, skipped, calls>>

\* f.write(r.content) returns and the file is closed
MWriteEnd ==
    /\ UNCHANGED <<tvars, gvars>>
    /\ mpc = "writing"
    /\ dir' = [dir EXCEPT ![FileName(download_files[fi])] = "complete"]
    /\ mpc' = "gunzip"
    /\ UNCHANGED <<dataDirExists, cwdIsData, cwdFiles, fi, requests, finished,
                   outcome, skipped, calls>>

\* gzip.open(..., 'rb') and open(abs_path + "/" + uncompressed_file_name, 'wb'):
\* the target is created (or truncated), empty, before anything is read
MOpenRaw ==
    /\ UNCHANGED <<tvars, gvars>>
    /\ mpc = "gunzip"
    /\ dir' = [dir EXCEPT ![UncompressedName(FileName(download_files[fi]))] = "empty"]
    /\ mpc' = "copy"
    /\ UNCHANGED <<dataDirExists, cwdIsData, cwdFiles, fi, requests, finished,
                   outcome, skipped, calls>>

\* shutil.copyfileobj(f_in, f_out): an empty compressed file reads as no data and
\* no error; a truncated one raises EOFError, before or after some chunks were
\* written; a complete one starts to be copied
MCopy ==
    /\ UNCHANGED <<tvars, gvars>>
    /\ mpc = "copy"
    /\ LET gz  == FileName(download_files[fi])
           raw == UncompressedName(gz)
       IN  \/ /\ dir[gz] = "empty"
              /\ mpc' = "rm"
              /\ UNCHANGED <<dir, outcome>>
           \/ /\ dir[gz] = "partial"
              /\ \E c \in {"empty", "partial"} : dir' = [dir EXCEPT ![raw] = c]
              /\ mpc' = "idle"
              /\ outcome' = "raised"
           \/ /\ dir[gz] = "complete"
              /\ dir' = [dir EXCEPT ![raw] = "partial"]
              /\ mpc' = "copying"
              /\ UNCHANGED outcome
    /\ UNCHANGED <<dataDirExists, cwdIsData, cwdFiles, fi, requests, finished,
                   skipped, calls>>

\* shutil.copyfileobj returns and both files are closed
MCopyEnd ==
    /\ UNCHANGED <<tvars, gvars>>
    /\ mpc = "copying"
    /\ dir' = [dir EXCEPT ![UncompressedName(FileName(download_files[fi]))] = "complete"]
    /\ mpc' = "rm"
    /\ UNCHANGED <<dataDirExists, cwdIsData, cwdFiles, fi, requests, finished,
                   outcome, skipped, calls>>

\* os.system("rm -rf " + file_name), then the next file_url
MRm ==
    /\ UNCHANGED <<tvars, gvars>>
    /\ mpc = "rm"
    /\ LET target == RmTarget(FileName(download_files[fi]))
       IN  IF cwdIsData
           THEN /\ dir' = [n \in DOMAIN dir |-> IF n = target THEN "absent" ELSE dir[n]]
                /\ UNCHANGED cwdFiles
           ELSE /\ cwdFiles' = cwdFiles \ {target}
                /\ UNCHANGED dir
    /\ fi' = fi + 1
    /\ mpc' = "loop"
    /\ UNCHANGED <<dataDirExists, cwdIsData, requests, finished, outcome, skipped, calls>>

\* the process is interrupted (killed) in the middle of a call
MCrash ==
    /\ UNCHANGED <<tvars, gvars>>
    /\ mpc # "idle"
    /\ mpc' = "idle"
    /\ outcome' = "killed"
    /\ UNCHANGED <<dataDirExists, dir, cwdIsData, cwdFiles, fi, requests, finished,
                   skipped, calls>>

MNext ==
    \/ MCall
    \/ MMkdir
    \/ MFinish
    \/ MSkip
    \/ MEnter
    \/ MOpenGz
    \/ MGet
    \/ MWrite
    \/ MWriteEnd
    \/ MOpenRaw
    \/ MCopy
    \/ MCopyEnd
    \/ MRm
    \/ MCrash

-----------------------------------------------------------------------------
(* Trainer.train *)

Feat == {"a", "b"}

Lab == {0, 1}

\* The feature arrays tried, of m rows: all rows equal, or two rows alternating
\* (so that equal rows can carry different labels).
FeatureArrays(m) ==
    { [r \in 1..m |-> "a"], [r \in 1..m |-> IF r % 2 = 1 THEN "a" ELSE "b"] }

\* The loss functions tried: two constant ones and one that varies.
LossChoices == {{3}, {7}, {3, 4}}

Min(a, b) == IF a < b THEN a ELSE b

Ceil(a, b) == (a + b - 1) \div b

RECURSIVE Sum(_)
Sum(s) == IF s = <<>> THEN 0 ELSE s[1] + Sum(Tail(s))

\* np.random.permutation(m): the orderings of the row numbers (1-based here)
permutation(m) == {perm \in [1..m -> 1..m] : \A r, q \in 1..m : perm[r] = perm[q] => r = q}

\* a[indices]: the rows of a picked by an index array
Take(a, indices) == [r \in 1..Len(indices) |-> a[indices[r]]]

\* X_train = X_train[indices]
ShuffleX(rows, indices) == Take(rows, indices)

\* The labels left in their old order.
ShuffleYNot(labels, indices) == labels

\* y_train = y_train[indices]
ShuffleY(labels, indices) == Take(labels, indices)

\* A slice one row short.
SliceShort(a, off, size) == SubSeq(a, off + 1, Min(off + size - 1, Len(a)))

\* a[off:off+size]: the slice stops at the end of the array
Slice(a, off, size) == SubSeq(a, off + 1, Min(off + size, Len(a)))

\* The accumulator carried over from the epoch before.
ResetLossKeep(old) == old

\* epoch_loss = 0.0 at the start of an epoch
ResetLoss(old) == 0

\* "%.5f" % (total / n), total in units of 1e-5: the quotient rounded to the
\* nearest unit, a tie to the even one
Fmt5(total, n) ==
    LET q == total \div n
        r == total % n
    IN  IF 2 * r < n THEN q
        ELSE IF 2 * r > n THEN q + 1
        ELSE IF q % 2 = 0 THEN q ELSE q + 1

\* Trainer(model, batch_size, epochs).train(X_train, y_train) is entered
TInit ==
    /\ \E m \in 0..MaxM :
          /\ X0 \in FeatureArrays(m)
          /\ y0 \in [1..m -> Lab]
          /\ src = [r \in 1..m |-> r]
    /\ X_train = X0
    /\ y_train = y0
    /\ batch_size \in 1..MaxBatch
    /\ epochs \in 1..MaxEpochs
    /\ lossVals \in LossChoices
    /\ e = 0
    /\ it = 0
    /\ epoch_loss = 0
    /\ num_batches = 0
    /\ tpc = "epoch"
    /\ backwardCalls = 0
    /\ seen = <<>>
    /\ batchSizes = <<>>
    /\ lossLog = <<>>
    /\ batch = <<>>
    /\ reported = <<>>
    \* load_dataset_mnist is not running
    /\ dataDirExists = FALSE
    /\ dir = [n \in GzNames \cup RawNames |-> "absent"]
    /\ cwdIsData = FALSE
    /\ cwdFiles = {}
    /\ mpc = "off"
    /\ fi = 1
    /\ requests = 0
    /\ finished = 0
    /\ outcome = "none"
    /\ skipped = {}
    /\ calls = 0
    \* TrainerGAN.train is not running
    /\ gm = 0 /\ gbatch = 0 /\ iterations = 0 /\ k = 0 /\ report_freq = 0
    /\ i = 0 /\ j = 0 /\ z = 0 /\ G = <<>> /\ x = <<>> /\ y = <<>>
    /\ D_loss = "unbound" /\ report_loss = 0 /\ G_loss = "unbound" /\ gpc = "off"
    /\ draws = 0 /\ dUpdates = 0 /\ gUpdates = 0 /\ events = <<>> /\ inner = <<>>
    /\ printed = [iteration |-> 0, D |-> 0, G |-> 0] /\ reportsAt = {} /\ saves = 0 /\ pngs = {}

\* for e in range(self.epochs): shuffle both arrays, reset the accumulators
TEpoch ==
    /\ UNCHANGED <<mvars, gvars>>
    /\ tpc = "epoch"
    /\ e < epochs
    /\ \E indices \in permutation(Len(X_train)) :
          /\ X_train' = ShuffleX(X_train, indices)
          /\ y_train' = ShuffleY(y_train, indices)
          /\ src' = Take(src, indices)
    /\ epoch_loss' = ResetLoss(epoch_loss)
    /\ num_batches' = 0
    /\ it' = 0
    /\ seen' = <<>>
    /\ batchSizes' = <<>>
    /\ lossLog' = <<>>
    /\ tpc' = "batch"
    /\ UNCHANGED <<X0, y0, batch_size, epochs, lossVals, e, backwardCalls, batch, reported>>

\* for it in range(0, m, batch_size): slice, predict, loss, backward, accumulate
TBatch ==
    /\ UNCHANGED <<mvars, gvars>>
    /\ tpc = "batch"
    /\ it < Len(X_train)
    /\ LET X_batch == Slice(X_train, it, batch_size)
           y_batch == Slice(y_train, it, batch_size)
       IN  /\ batch' = <<X_batch, y_batch>>
           /\ batchSizes' = Append(batchSizes, Len(X_batch))
           /\ seen' = seen \o SubSeq(src, it + 1, it + Len(X_batch))
    /\ \E batch_loss \in lossVals :
          /\ epoch_loss' = epoch_loss + batch_loss
          /\ lossLog' = Append(lossLog, batch_loss)
    /\ backwardCalls' = backwardCalls + 1
    /\ num_batches' = num_batches + 1
    /\ it' = it + batch_size
    /\ UNCHANGED <<X0, y0, X_train, y_train, src, batch_size, epochs, lossVals, e, tpc,
                   reported>>

\* print("Loss at epoch %d: %.5f" % (e+1, epoch_loss/num_batches)); with no
\* batch the division raises ZeroDivisionError
TReport ==
    /\ UNCHANGED <<mvars, gvars>>
    /\ tpc = "batch"
    /\ it >= Len(X_train)
    /\ IF num_batches = 0
       THEN /\ tpc' = "error"
            /\ UNCHANGED <<e, reported>>
       ELSE /\ reported' = Append(reported, Fmt5(epoch_loss, num_batches))
            /\ e' = e + 1
            /\ tpc' = "epoch"
    /\ UNCHANGED <<X0, y0, X_train, y_train, src, batch_size, epochs, lossVals, it,
                   epoch_loss, num_batches, backwardCalls, seen, batchSizes, lossLog,
                   batch>>

\* the epochs are exhausted: train returns
TDone ==
    /\ UNCHANGED <<mvars, gvars>>
    /\ tpc = "epoch"
    /\ e >= epochs
    /\ tpc' = "done"
    /\ UNCHANGED <<X0, y0, X_train, y_train, src, batch_size, epochs, lossVals, e, it,
                   epoch_loss, num_batches, backwardCalls, seen, batchSizes, lossLog,
                   batch, reported>>

TNext ==
    \/ TEpoch
    \/ TBatch
    \/ TReport
    \/ TDone

-----------------------------------------------------------------------------
(* TrainerGAN.train and save_grid_images *)

\* The values the discriminator's loss_func can return, in units of 1e-5
GanLossVals == {100000, 300000}

\* np.ones(shape=(batch_size, 1))
Ones(n) == [r \in 1..n |-> 1]

\* np.zeros(shape=(batch_size, 1))
Zeros(n) == [r \in 1..n |-> 0]

\* y = np.concatenate((ones, zeros), axis=0)
Labels(n) == Ones(n) \o Zeros(n)

\* X_train: row r of the training array
RealRow(r) == [kind |-> "real", row |-> r]

\* self.generator(z) / self.generator(z, prediction=True): one row per row of z,
\* depending on the noise and on the generator's parameters (its updates so far)
Generator(zz, n, params, prediction) ==
    [r \in 1..n |-> [kind |-> "fake", z |-> zz, row |-> r, params |-> params,
                     prediction |-> prediction]]

\* self.discriminator(x): depends on the batch and on the discriminator's parameters
Discriminator(batchIn, params) == [input |-> batchIn, params |-> params]

\* The two halves joined in the other order.
ConcatenateSwapped(real, fake) == fake \o real

\* x = np.concatenate((x, G), axis=0)
Concatenate(real, fake) == real \o fake

\* One inner step too many.
InnerStepsExtra(kk) == kk + 1

\* for _ in range(self.k): the number of inner steps
InnerSteps(kk) == kk

\* The report test on the 0-based loop index.
ReportDueZeroBased(ii, freq) == ii % freq = 0

\* if (i+1) % self.report_freq == 0
ReportDue(ii, freq) == (ii + 1) % freq = 0

\* the iteration number handed to print and to save_grid_images: i+1
ReportNumber(ii) == ii + 1

\* "%d" % n: the decimal digits of a non-negative integer
RECURSIVE Digits(_)
Digits(n) == IF n < 10 THEN <<n>> ELSE Append(Digits(n \div 10), n % 10)

\* f = "gan-%d.png" % iteration
GanFileName(iteration) == <<"gan-">> \o Digits(iteration) \o <<".png">>

\* nrows_ncols=(4, 4): the grid has 16 axes
GridCells == 16

\* for ax, im in zip(grid, images): the images shown, at most one per axis
GridImages(images) == SubSeq(images, 1, Min(Len(images), GridCells))

\* TrainerGAN(generator, discriminator, batch_size, iterations, latent_dim, k,
\* report_freq).train(X_train) is entered: lines 147-150
GInit ==
    /\ gm \in 1..MaxGM
    /\ gbatch \in 1..MaxGBatch
    /\ iterations \in 1..MaxIterations
    /\ k \in 1..MaxK
    /\ report_freq \in 1..MaxFreq
    /\ i = 0
    /\ j = 0
    /\ z = 0
    /\ G = <<>>
    /\ x = <<>>
    /\ y = Labels(gbatch)
    /\ D_loss = "unbound"
    /\ report_loss = 0
    /\ G_loss = "unbound"
    /\ gpc = "iter"
    /\ draws = 0
    /\ dUpdates = 0
    /\ gUpdates = 0
    /\ events = <<>>
    /\ inner = <<>>
    /\ printed = [iteration |-> 0, D |-> 0, G |-> 0]
    /\ reportsAt = {}
    /\ saves = 0
    /\ pngs = {}
    \* load_dataset_mnist is not running
    /\ dataDirExists = FALSE
    /\ dir = [n \in GzNames \cup RawNames |-> "absent"]
    /\ cwdIsData = FALSE
    /\ cwdFiles = {}
    /\ mpc = "off"
    /\ fi = 1
    /\ requests = 0
    /\ finished = 0
    /\ outcome = "none"
    /\ skipped = {}
    /\ calls = 0
    \* Trainer.train is not running
    /\ X0 = <<>> /\ y0 = <<>> /\ X_train = <<>> /\ y_train = <<>> /\ src = <<>>
    /\ batch_size = 1 /\ epochs = 0 /\ lossVals = {} /\ e = 0 /\ it = 0
    /\ epoch_loss = 0 /\ num_batches = 0 /\ tpc = "off" /\ backwardCalls = 0
    /\ seen = <<>> /\ batchSizes = <<>> /\ lossLog = <<>> /\ batch = <<>>
    /\ reported = <<>>

\* for i in range(self.iterations): draw z, G = self.generator(z), report_loss = 0.0
GIter ==
    /\ UNCHANGED <<mvars, tvars>>
    /\ gpc = "iter"
    /\ i < iterations
    /\ draws' = draws + 1
    /\ z' = draws + 1
    /\ G' = Generator(draws + 1, gbatch, gUpdates, FALSE)
    /\ events' = <<[op |-> "generator", z |-> draws + 1, prediction |-> FALSE]>>
    /\ report_loss' = 0
    /\ inner' = <<>>
    /\ j' = 0
    /\ gpc' = "inner"
    /\ UNCHANGED <<gm, gbatch, iterations, k, report_freq, i, x, y, D_loss, G_loss,
                   dUpdates, gUpdates, printed, reportsAt, saves, pngs>>

\* one inner step: a random real minibatch joined with G, the discriminator's
\* prediction, loss and update
GDStep ==
    /\ UNCHANGED <<mvars, tvars>>
    /\ gpc = "inner"
    /\ j < InnerSteps(k)
    /\ \E ind \in [1..gbatch -> 1..gm] :
          LET xx    == Concatenate([r \in 1..gbatch |-> RealRow(ind[r])], G)
              y_hat == Discriminator(xx, dUpdates)
          IN  /\ x' = xx
              /\ events' = Append(events, [op |-> "discriminator.backward", y |-> y,
                                           y_hat |-> y_hat.params])
    /\ \E loss \in GanLossVals :
          /\ D_loss' = loss
          /\ report_loss' = report_loss + loss
          /\ inner' = Append(inner, loss)
    /\ dUpdates' = dUpdates + 1
    /\ j' = j + 1
    /\ UNCHANGED <<gm, gbatch, iterations, k, report_freq, i, z, G, y, G_loss, gpc,
                   draws, gUpdates, printed, reportsAt, saves, pngs>>

\* after the inner loop: the discriminator's prediction on G, the generator's
\* loss against ones and its update; then the test of the report
GGenStep ==
    /\ UNCHANGED <<mvars, tvars>>
    /\ gpc = "inner"
    /\ j >= InnerSteps(k)
    /\ LET y_hat == Discriminator(G, dUpdates)
       IN  events' = Append(events, [op |-> "generator.backward", target |-> Ones(gbatch),
                                     y_hat |-> y_hat, z |-> z,
                                     collaborator |-> "discriminator"])
    /\ \E loss \in GanLossVals : G_loss' = loss
    /\ gUpdates' = gUpdates + 1
    /\ IF ReportDue(i, report_freq)
       THEN /\ gpc' = "report"
            /\ UNCHANGED i
       ELSE /\ gpc' = "iter"
            /\ i' = i + 1
    /\ UNCHANGED <<gm, gbatch, iterations, k, report_freq, j, z, G, x, y, D_loss,
                   report_loss, draws, dUpdates, inner, printed, reportsAt, saves, pngs>>

\* the report: print the losses, draw new noise, generate with prediction=True,
\* save_grid_images(G, i+1)
GReport ==
    /\ UNCHANGED <<mvars, tvars>>
    /\ gpc = "report"
    /\ printed' = [iteration |-> ReportNumber(i), D |-> Fmt5(D_loss, k),
                   G |-> Fmt5(G_loss, 1)]
    /\ reportsAt' = reportsAt \cup {ReportNumber(i)}
    /\ draws' = draws + 1
    /\ z' = draws + 1
    /\ G' = Generator(draws + 1, gbatch, gUpdates, TRUE)
    /\ events' = Append(events, [op |-> "generator", z |-> draws + 1, prediction |-> TRUE])
    /\ LET f == GanFileName(ReportNumber(i))
       IN  pngs' = {p \in pngs : p.name # f}
                     \cup {[name |-> f, images |-> GridImages(G'), iteration |-> ReportNumber(i)]}
    /\ saves' = saves + 1
    /\ i' = i + 1
    /\ gpc' = "iter"
    /\ UNCHANGED <<gm, gbatch, iterations, k, report_freq, j, x, y, D_loss, report_loss,
                   G_loss, dUpdates, gUpdates, inner>>

\* the iterations are exhausted: train returns
GDone ==
    /\ UNCHANGED <<mvars, tvars>>
    /\ gpc = "iter"
    /\ i >= iterations
    /\ gpc' = "done"
    /\ UNCHANGED <<gm, gbatch, iterations, k, report_freq, i, j, z, G, x, y, D_loss,
                   report_loss, G_loss, draws, dUpdates, gUpdates, events, inner,
                   printed, reportsAt, saves, pngs>>

GNext ==
    \/ GIter
    \/ GDStep
    \/ GGenStep
    \/ GReport
    \/ GDone

-----------------------------------------------------------------------------
(* Properties of load_dataset_mnist *)

RawOf(n) == UncompressedName(FileName(download_files[n]))

\* C1: once a call has run to completion, no later step issues an HTTP request,
\* and a later call never leaves the loop head: every iteration is skipped.
C1_SecondCallNoRequests ==
    [][finished > 0 => /\ requests' = requests
                       /\ mpc' \in {"idle", "mkdir", "loop"}]_vars

\* A second call has run to completion, skipping all four files, after requests
\* were made.
C1_Witness ==
    /\ finished >= 2
    /\ outcome = "returned"
    /\ skipped = FileIdx
    /\ requests > 0

\* C7: a call creates, modifies or deletes no file outside <check_path>/data_mnist;
\* in particular the files of the current working directory stay as they are.
C7_OutsideUntouched == [][cwdFiles' = cwdFiles]_vars

\* C8: the presence checks look at the name alone.  At the loop head, a listed
\* target, whatever its content, is skipped with no request and no write; and a
\* listed compressed file, whatever its content, is never downloaded again.
C8_SkipOnPresenceAlone ==
    [][(mpc = "loop" /\ fi \in FileIdx) =>
         /\ dir[RawOf(fi)] # "absent" =>
              /\ dir' = dir
              /\ requests' = requests
              /\ mpc' = "idle" \/ (mpc' = "loop" /\ fi' = fi + 1)
         /\ (dir[RawOf(fi)] = "absent" /\ dir[FileName(download_files[fi])] # "absent") =>
              /\ dir' = dir
              /\ requests' = requests
              /\ mpc' \in {"idle", "gunzip"}]_vars

\* A call has returned normally having skipped a target that is incomplete on disk.
C8_Witness ==
    /\ outcome = "returned"
    /\ \E n \in skipped : dir[RawOf(n)] \in {"empty", "partial"}

-----------------------------------------------------------------------------
(* Properties of Trainer.train *)

NumBatches == Ceil(Len(X_train), batch_size)

EpochOver == (tpc = "batch" /\ it >= Len(X_train)) \/ (tpc \in {"epoch", "done"} /\ e >= 1)

\* C3: the loss reported for an epoch is that epoch's batch losses summed and
\* divided by that epoch's number of batches; with a loss_func that always
\* returns c, every epoch reports c.
C3_EpochLossIsMean ==
    /\ Len(reported) = e
    /\ (tpc \in {"epoch", "done"} /\ e >= 1) =>
           reported[e] = Fmt5(Sum(lossLog), Len(lossLog))
    /\ \A c \in lossVals :
           lossVals = {c} => \A n \in 1..Len(reported) : reported[n] = c

\* Two epochs of two batches each (3 samples, batch_size 2) with the constant loss 7.
C3_Witness ==
    /\ tpc = "done"
    /\ lossVals = {7}
    /\ Len(X_train) = 3
    /\ batch_size = 2
    /\ reported = <<7, 7>>

\* C4: in every epoch the batches partition the training set: each sample is in
\* exactly one batch, there are ceil(m / batch_size) batches, all of batch_size
\* samples but possibly the last, which has between 1 and batch_size; and
\* backward is called once per batch, epochs * ceil(m / batch_size) times in all.
C4_BatchesPartition ==
    /\ Len(batchSizes) <= NumBatches
    /\ \A b \in 1..Len(batchSizes) :
           /\ batchSizes[b] \in 1..batch_size
           /\ b < NumBatches => batchSizes[b] = batch_size
    /\ Len(seen) = Sum(batchSizes)
    /\ \A a, b \in 1..Len(seen) : seen[a] = seen[b] => a = b
    /\ EpochOver =>
           /\ Len(batchSizes) = NumBatches
           /\ {seen[a] : a \in 1..Len(seen)} = 1..Len(X0)
    /\ backwardCalls = e * NumBatches + (IF tpc = "batch" THEN Len(batchSizes) ELSE 0)
    /\ tpc = "done" => backwardCalls = epochs * NumBatches

\* Two epochs over 3 samples in batches of 2: the last batch is smaller, and
\* backward ran 4 times.
C4_Witness ==
    /\ tpc = "done"
    /\ epochs = 2
    /\ Len(X_train) = 3
    /\ batchSizes = <<2, 1>>
    /\ backwardCalls = 4

PairCount(rows, labels, pair) ==
    Cardinality({r \in 1..Len(rows) : <<rows[r], labels[r]>> = pair})

\* C9: features and labels stay paired over the epochs: the arrays keep their
\* length, the pairs they hold row by row are the original pairs, each as often as
\* in the original training set, and so are the pairs of every batch.
C9_PairsKept ==
    /\ Len(X_train) = Len(X0)
    /\ Len(y_train) = Len(y0)
    /\ \A pair \in Feat \X Lab :
           PairCount(X_train, y_train, pair) = PairCount(X0, y0, pair)
    /\ batch # <<>> =>
           /\ Len(batch[1]) = Len(batch[2])
           /\ \A r \in 1..Len(batch[1]) :
                  \E q \in 1..Len(X0) : X0[q] = batch[1][r] /\ y0[q] = batch[2][r]

\* The second epoch's batches are running on arrays in another order than the
\* original, where two equal rows carry different labels.
C9_Witness ==
    /\ tpc = "batch"
    /\ e = 1
    /\ it > 0
    /\ Len(X0) = 3
    /\ X0[1] = X0[3]
    /\ y0[1] # y0[3]
    /\ X_train # X0
    /\ y_train # y0

-----------------------------------------------------------------------------
(* Properties of TrainerGAN.train *)

\* C2: in every inner step the discriminator's batch has 2 * batch_size rows; the
\* first batch_size are rows of X_train, labelled 1, the last batch_size are the
\* rows of G, labelled 0.
C2_DiscriminatorBatch ==
    (gpc = "inner" /\ j >= 1) =>
        /\ Len(x) = 2 * gbatch
        /\ Len(y) = 2 * gbatch
        /\ \A r \in 1..gbatch :
               /\ x[r].kind = "real"
               /\ x[r].row \in 1..gm
               /\ y[r] = 1
               /\ x[gbatch + r].kind = "fake"
               /\ x[gbatch + r] = G[r]
               /\ y[gbatch + r] = 0

\* The second inner step of a later iteration, on a batch of two different real rows.
C2_Witness ==
    /\ gpc = "inner"
    /\ i >= 1
    /\ j = 2
    /\ gbatch = 2
    /\ x[1] # x[2]

\* C5: an iteration is one generator call on noise z, then k discriminator
\* updates, then one generator update with target ones, with the discriminator's
\* output on the batch made from that z, with that z and with the discriminator;
\* only then may a report's generator call follow.  The updates are counted
\* accordingly: iterations * k and iterations when train returns.
C5_IterationOrder ==
    /\ Len(events) <= k + 3
    /\ \A p \in 1..Len(events) :
           /\ p = 1 => /\ events[p].op = "generator"
                       /\ events[p].prediction = FALSE
           /\ (2 <= p /\ p <= k + 1) => events[p].op = "discriminator.backward"
           /\ p = k + 2 =>
                  /\ events[p].op = "generator.backward"
                  /\ events[p].target = Ones(gbatch)
                  /\ events[p].z = events[1].z
                  /\ events[p].y_hat.input
                       = Generator(events[1].z, gbatch, gUpdates - 1, FALSE)
                  /\ events[p].y_hat.params = dUpdates
                  /\ events[p].collaborator = "discriminator"
           /\ p = k + 3 => /\ events[p].op = "generator"
                           /\ events[p].prediction = TRUE
    /\ dUpdates = i * k + (IF gpc = "inner" THEN j ELSE IF gpc = "report" THEN k ELSE 0)
    /\ gUpdates = i + (IF gpc = "report" THEN 1 ELSE 0)
    /\ gpc = "inner" => (j <= k /\ Len(events) = j + 1)
    /\ gpc = "done" => (dUpdates = iterations * k /\ gUpdates = iterations)

\* train has returned after three iterations or more with k = 2.
C5_Witness ==
    /\ gpc = "done"
    /\ iterations >= 3
    /\ k = 2
    /\ dUpdates = 2 * iterations
    /\ gUpdates = iterations

\* the integer a sequence of decimal digits writes
RECURSIVE DecimalValue(_)
DecimalValue(ds) ==
    IF ds = <<>> THEN 0 ELSE 10 * DecimalValue(SubSeq(ds, 1, Len(ds) - 1)) + ds[Len(ds)]

\* C6: the reports are those of the iterations whose 1-based number n is a
\* multiple of report_freq; each writes gan-<n>.png, built from a batch generated
\* after the generator update of iteration n from noise drawn for the report; so a
\* run writes floor(iterations / report_freq) files, their names all different.
C6_Reports ==
    /\ reportsAt = {n \in 1..i : n % report_freq = 0}
    /\ saves = Cardinality(reportsAt)
    /\ Cardinality(pngs) = saves
    /\ Cardinality({p.name : p \in pngs}) = saves
    /\ {p.iteration : p \in pngs} = reportsAt
    /\ \A p \in pngs :
           /\ Len(p.name) >= 3
           /\ p.name[1] = "gan-"
           /\ p.name[Len(p.name)] = ".png"
           /\ DecimalValue(SubSeq(p.name, 2, Len(p.name) - 1)) = p.iteration
           /\ Len(p.images) = Min(gbatch, GridCells)
           /\ \A r \in 1..Len(p.images) :
                  /\ p.images[r].prediction = TRUE
                  /\ p.images[r].params = p.iteration
                  /\ p.images[r].z = p.iteration + (p.iteration \div report_freq)
    /\ gpc = "done" => saves = iterations \div report_freq

\* Six iterations reporting every second one: three files, the last gan-6.png.
C6_Witness ==
    /\ gpc = "done"
    /\ iterations = 6
    /\ report_freq = 2
    /\ saves = 3
    /\ \E p \in pngs : p.name = <<"gan-", 6, ".png">>

\* C10: the discriminator loss printed at a report is the mean of the k inner
\* losses of that iteration: report_loss / k.
C10_PrintedIsMean ==
    (gpc = "iter" /\ printed.iteration = i /\ i >= 1) =>
        /\ report_loss = Sum(inner)
        /\ printed.D = Fmt5(report_loss, k)

-----------------------------------------------------------------------------
(* Specifications *)

SpecMnist == MInit /\ [][MNext]_vars

SpecTrainer == TInit /\ [][TNext]_vars

SpecGAN == GInit /\ [][GNext]_vars

====
